---- MODULE Spec2Model ----
(***************************************************************************)
(* tailr (src/tailr/src/lib.rs, src/tailr/src/main.rs): parsing of the     *)
(* line/byte count, resolution of the start index, the counting pass and  *)
(* the two emitters, driven by run over the listed files.                 *)
(*                                                                         *)
(* Integers: TLC's integers are 32 bits wide, so the program's i64/u64    *)
(* are modelled as IntBits-bit two's-complement integers; I64_MIN and     *)
(* I64_MAX are the extremes of that width and every arithmetic result is  *)
(* wrapped to it.                                                          *)
(***************************************************************************)
EXTENDS Integers, Sequences, FiniteSets, TLC

VARIABLES
    \* ---- the command line (clap's matches)
    lines_arg,      \* value_of("lines"): the token given, or the default "10"
    bytes_arg,      \* value_of("bytes"): [given, tok]
    quiet,          \* is_present("quiet")
    files,          \* values_of_lossy("files")
    \* ---- Config, as get_args builds it
    config,
    \* ---- main / run
    pc,             \* position of the program
    file_num,       \* enumerate() index of the file being processed
    err,            \* the Err that get_args or run returned to main
    exit_code,      \* process exit status, -1 while running
    handles,        \* open file handles: <<owner, file_num>>
    \* ---- the file system, as seen for the file being processed
    disk,           \* its current content (sequence of bytes)
    budget,         \* bytes of content that may still come into existence
    modified,       \* another process appended to it since run opened it
    \* ---- count_lines_bytes
    count_pos,      \* read position of the counting handle
    num_lines,
    num_bytes,
    total_lines,    \* the pair count_lines_bytes returned
    total_bytes,
    \* ---- print_lines / print_bytes
    start_index,    \* what get_start_index returned
    line_num,
    pos,            \* read position of the handle run opened
    buf_capacity,   \* of the Vec (buf, buffer) the running function reads
                    \* into: the most bytes it has held; 0 when none is alive
    \* ---- the two output channels
    stdout,
    stderr,
    \* ---- parse_num and get_start_index applied on their own
    p_val,          \* parse_num's argument
    p_parsed,       \* and its result
    r_take_val,     \* get_start_index's arguments
    r_total,
    r_index         \* and its result

vars == <<lines_arg, bytes_arg, quiet, files, config, pc, file_num, err,
          exit_code, handles, disk, budget, modified, count_pos, num_lines,
          num_bytes, total_lines, total_bytes, start_index, line_num, pos,
          buf_capacity, stdout, stderr, p_val, p_parsed, r_take_val, r_total, r_index>>

\* ------------------------------------------------------------------ bounds
\* width, in bits, of the model's stand-in for i64 and u64
IntBits == 5
\* longest count token (in characters) drawn for parse_num
MaxTokenLen == 3
\* most files listed on the command line
MaxFiles == 2
\* most bytes of file content that exist during one run, over all listed
\* files, bytes appended by another process included
MaxDiskBytes == 3

\* ------------------------------------------------------------- integers
RECURSIVE Pow2(_)
Pow2(n) == IF n = 0 THEN 1 ELSE 2 * Pow2(n - 1)

I64_MAX == Pow2(IntBits - 1) - 1
I64_MIN == -Pow2(IntBits - 1)
I64 == I64_MIN..I64_MAX

\* two's-complement wrap of an integer result to the i64 width
WrapI64(x) == ((x - I64_MIN) % Pow2(IntBits)) + I64_MIN
\* `start as u64`: reinterpretation of an i64 as the unsigned type of that width
AsU64(x) == x % Pow2(IntBits)

\* ------------------------------------------------------------ TakeValue
\* enum TakeValue { PlusZero, TakeNum(i64) }
PlusZero == [tag |-> "PlusZero", num |-> 0]
TakeNum(n) == [tag |-> "TakeNum", num |-> n]
TakeValue == {PlusZero} \cup {TakeNum(n) : n \in I64}

\* MyResult<TakeValue>: Ok(value) or Err(message); a message is the sequence
\* of characters Display prints for the boxed error
Ok(v) == [ok |-> TRUE, value |-> v, err |-> <<>>]
Err(msg) == [ok |-> FALSE, value |-> PlusZero, err |-> msg]

\* Option<u64>
None == [some |-> FALSE, idx |-> 0]
Some(i) == [some |-> TRUE, idx |-> i]

\* ------------------------------------------------------------- parse_num
\* Characters are one-character strings.  "u0663" stands for U+0663
\* ARABIC-INDIC DIGIT THREE: the regex class \d (Unicode mode) matches it,
\* i64::from_str does not accept it.
AsciiDigits == <<"0", "1", "2", "3", "4", "5", "6", "7", "8", "9">>
AsciiDigitSet == {AsciiDigits[i] : i \in 1..10}
SignChars == {"+", "-"}
OtherChars == {".", "a", "u0663"}
Chars == SignChars \cup AsciiDigitSet \cup OtherChars

\* the regex class \d
IsDigitClass(c) == c \in AsciiDigitSet \/ c = "u0663"

DigitValue(c) == (CHOOSE i \in 1..10 : AsciiDigits[i] = c) - 1

\* Regex ^([+-])?(\d+)$ : the captures, or no match.  Group 1 is the optional
\* sign, group 2 the digits.
NoMatch == [matched |-> FALSE, sign |-> <<>>, digits |-> <<>>]

\* mutant: the pattern without its end anchor, ^([+-])?(\d+) : the digits
\* captured are the longest run of digits after the optional sign
RECURSIVE DigitPrefix(_)
DigitPrefix(s) ==
    IF s = <<>> \/ ~IsDigitClass(Head(s)) THEN <<>>
    ELSE <<Head(s)>> \o DigitPrefix(Tail(s))
Captures_Unanchored(val) ==
    LET hasSign == Len(val) > 0 /\ val[1] \in SignChars
        digits == DigitPrefix(IF hasSign THEN Tail(val) ELSE val)
    IN  IF Len(digits) >= 1
        THEN [matched |-> TRUE,
              sign |-> IF hasSign THEN <<val[1]>> ELSE <<>>,
              digits |-> digits]
        ELSE NoMatch

Captures(val) ==
    LET hasSign == Len(val) > 0 /\ val[1] \in SignChars
        digits == IF hasSign THEN Tail(val) ELSE val
    IN  IF Len(digits) >= 1 /\ \A i \in 1..Len(digits) : IsDigitClass(digits[i])
        THEN [matched |-> TRUE,
              sign |-> IF hasSign THEN <<val[1]>> ELSE <<>>,
              digits |-> digits]
        ELSE NoMatch

\* <i64 as FromStr>::from_str on sign ++ digits: the digits are accumulated
\* left to right with checked_mul(10) and checked_add / checked_sub of the
\* digit; a character that is no ASCII digit or an overflow is an error.
ParseFail == [ok |-> FALSE, n |-> 0]

\* mutant: saturating_mul / saturating_add / saturating_sub in place of the
\* checked operations, so an overflow clamps to the extreme
Saturate(x) == IF x > I64_MAX THEN I64_MAX ELSE IF x < I64_MIN THEN I64_MIN ELSE x
RECURSIVE Accumulate_Saturating(_, _, _)
Accumulate_Saturating(digits, positive, acc) ==
    IF digits = <<>> THEN [ok |-> TRUE, n |-> acc]
    ELSE IF Head(digits) \notin AsciiDigitSet THEN ParseFail
    ELSE LET mul == Saturate(acc * 10)
             next == IF positive THEN mul + DigitValue(Head(digits))
                     ELSE mul - DigitValue(Head(digits))
         IN  Accumulate_Saturating(Tail(digits), positive, Saturate(next))

\* mutant: the magnitude is accumulated as a positive number and negated at
\* the end, so the magnitude of the minimum overflows
RECURSIVE AccumulateUp(_, _)
AccumulateUp(digits, acc) ==
    IF digits = <<>> THEN [ok |-> TRUE, n |-> acc]
    ELSE IF Head(digits) \notin AsciiDigitSet THEN ParseFail
    ELSE LET next == acc * 10 + DigitValue(Head(digits))
         IN  IF next \notin I64 THEN ParseFail
             ELSE AccumulateUp(Tail(digits), next)
Accumulate_NegateLast(digits, positive, acc) ==
    LET r == AccumulateUp(digits, acc)
    IN  IF ~r.ok THEN ParseFail
        ELSE [ok |-> TRUE, n |-> IF positive THEN r.n ELSE -r.n]

RECURSIVE Accumulate(_, _, _)
Accumulate(digits, positive, acc) ==
    IF digits = <<>> THEN [ok |-> TRUE, n |-> acc]
    ELSE IF Head(digits) \notin AsciiDigitSet THEN ParseFail
    ELSE LET mul == acc * 10
             next == IF positive THEN mul + DigitValue(Head(digits))
                     ELSE mul - DigitValue(Head(digits))
         IN  IF mul \notin I64 \/ next \notin I64 THEN ParseFail
             ELSE Accumulate(Tail(digits), positive, next)

ParseI64(num) ==
    IF Len(num) = 0 THEN ParseFail
    ELSE IF num[1] = "+" THEN
        (IF Len(num) = 1 THEN ParseFail ELSE Accumulate(Tail(num), TRUE, 0))
    ELSE IF num[1] = "-" THEN
        (IF Len(num) = 1 THEN ParseFail ELSE Accumulate(Tail(num), FALSE, 0))
    ELSE Accumulate(num, TRUE, 0)

\* mutant: a token without a sign is taken as positive (map_or("+", ..))
parse_num_DefaultPlus(val) ==
    LET caps == Captures(val)
    IN  IF caps.matched THEN
            LET sign == IF caps.sign = <<>> THEN <<"+">> ELSE caps.sign
                num == sign \o caps.digits
                res == ParseI64(num)
            IN  IF res.ok THEN
                    (IF sign = <<"+">> /\ res.n = 0 THEN Ok(PlusZero)
                     ELSE Ok(TakeNum(res.n)))
                ELSE Err(val)
        ELSE Err(val)

\* mutant: the test for PlusZero without `sign == "+"`
parse_num_AnyZero(val) ==
    LET caps == Captures(val)
    IN  IF caps.matched THEN
            LET sign == IF caps.sign = <<>> THEN <<"-">> ELSE caps.sign
                num == sign \o caps.digits
                res == ParseI64(num)
            IN  IF res.ok THEN
                    (IF res.n = 0 THEN Ok(PlusZero)
                     ELSE Ok(TakeNum(res.n)))
                ELSE Err(val)
        ELSE Err(val)

parse_num(val) ==
    LET caps == Captures(val)
    IN  IF caps.matched THEN
            LET sign == IF caps.sign = <<>> THEN <<"-">> ELSE caps.sign
                num == sign \o caps.digits
                res == ParseI64(num)
            IN  IF res.ok THEN
                    (IF sign = <<"+">> /\ res.n = 0 THEN Ok(PlusZero)
                     ELSE Ok(TakeNum(res.n)))
                ELSE Err(val)
        ELSE Err(val)

\* ------------------------------------------------------- get_start_index
\* mutant: `num >= &total` in place of `num > &total`
get_start_index_GeTotal(take_val, total) ==
    IF take_val.tag = "PlusZero" THEN
        (IF total > 0 THEN Some(0) ELSE None)
    ELSE
        LET num == take_val.num
        IN  IF num = 0 \/ total = 0 \/ num >= total THEN None
            ELSE LET start == IF num < 0 THEN WrapI64(total + num)
                              ELSE WrapI64(num - 1)
                 IN  Some(IF start < 0 THEN 0 ELSE AsU64(start))

\* mutant: `Some(start as u64)` without the clamp of a negative start
get_start_index_NoClamp(take_val, total) ==
    IF take_val.tag = "PlusZero" THEN
        (IF total > 0 THEN Some(0) ELSE None)
    ELSE
        LET num == take_val.num
        IN  IF num = 0 \/ total = 0 \/ num > total THEN None
            ELSE LET start == IF num < 0 THEN WrapI64(total + num)
                              ELSE WrapI64(num - 1)
                 IN  Some(AsU64(start))

\* mutant: PlusZero without the test for an empty file
get_start_index_PlusZeroAlways(take_val, total) ==
    IF take_val.tag = "PlusZero" THEN Some(0)
    ELSE
        LET num == take_val.num
        IN  IF num = 0 \/ total = 0 \/ num > total THEN None
            ELSE LET start == IF num < 0 THEN WrapI64(total + num)
                              ELSE WrapI64(num - 1)
                 IN  Some(IF start < 0 THEN 0 ELSE AsU64(start))

\* mutant: the guard without `num == &0`
get_start_index_NoZeroTest(take_val, total) ==
    IF take_val.tag = "PlusZero" THEN
        (IF total > 0 THEN Some(0) ELSE None)
    ELSE
        LET num == take_val.num
        IN  IF total = 0 \/ num > total THEN None
            ELSE LET start == IF num < 0 THEN WrapI64(total + num)
                              ELSE WrapI64(num - 1)
                 IN  Some(IF start < 0 THEN 0 ELSE AsU64(start))

\* mutant: the guard without `total == 0`
get_start_index_NoEmptyTest(take_val, total) ==
    IF take_val.tag = "PlusZero" THEN
        (IF total > 0 THEN Some(0) ELSE None)
    ELSE
        LET num == take_val.num
        IN  IF num = 0 \/ num > total THEN None
            ELSE LET start == IF num < 0 THEN WrapI64(total + num)
                              ELSE WrapI64(num - 1)
                 IN  Some(IF start < 0 THEN 0 ELSE AsU64(start))

\* mutant: `num` in place of `num - 1` for a count from the start
get_start_index_FromOne(take_val, total) ==
    IF take_val.tag = "PlusZero" THEN
        (IF total > 0 THEN Some(0) ELSE None)
    ELSE
        LET num == take_val.num
        IN  IF num = 0 \/ total = 0 \/ num > total THEN None
            ELSE LET start == IF num < 0 THEN WrapI64(total + num)
                              ELSE num
                 IN  Some(IF start < 0 THEN 0 ELSE AsU64(start))

\* mutant: the guard `num - total > 0` in place of `num > &total`
get_start_index_GuardBySubtraction(take_val, total) ==
    IF take_val.tag = "PlusZero" THEN
        (IF total > 0 THEN Some(0) ELSE None)
    ELSE
        LET num == take_val.num
        IN  IF num = 0 \/ total = 0 \/ WrapI64(num - total) > 0 THEN None
            ELSE LET start == IF num < 0 THEN WrapI64(total + num)
                              ELSE WrapI64(num - 1)
                 IN  Some(IF start < 0 THEN 0 ELSE AsU64(start))

get_start_index(take_val, total) ==
    IF take_val.tag = "PlusZero" THEN
        (IF total > 0 THEN Some(0) ELSE None)
    ELSE
        LET num == take_val.num
        IN  IF num = 0 \/ total = 0 \/ num > total THEN None
            ELSE LET start == IF num < 0 THEN WrapI64(total + num)
                              ELSE WrapI64(num - 1)
                 IN  Some(IF start < 0 THEN 0 ELSE AsU64(start))

\* ------------------------------------------------------------ file bytes
\* File content is a sequence of bytes.  10 is the line terminator b'\n',
\* 97 is 'a' (valid UTF-8 on its own), 255 is a byte that occurs in no
\* UTF-8 encoding.
Newline == 10
ByteAlphabet == {10, 97, 255}
Contents(n) == UNION {[1..k -> ByteAlphabet] : k \in 0..n}

\* String::from_utf8_lossy on bytes of ByteAlphabet: bytes below 128 are
\* kept, a byte that is not part of any well-formed sequence becomes
\* U+FFFD, whose UTF-8 encoding is EF BF BD.
ReplacementChar == <<239, 191, 189>>
RECURSIVE from_utf8_lossy(_)
from_utf8_lossy(bytes) ==
    IF bytes = <<>> THEN <<>>
    ELSE (IF Head(bytes) < 128 THEN <<Head(bytes)>> ELSE ReplacementChar)
         \o from_utf8_lossy(Tail(bytes))

\* BufRead::read_until(b'\n', buf) on a reader at offset `at` of `content`:
\* the number of bytes read, up to and including the first terminator, or to
\* the end of the content; 0 at end of file.
RECURSIVE read_until(_, _)
read_until(content, at) ==
    IF at >= Len(content) THEN 0
    ELSE IF content[at + 1] = Newline THEN 1
    ELSE 1 + read_until(content, at + 1)

\* the bytes of `content` at offsets at .. at+n-1
Slice(content, at, n) == SubSeq(content, at + 1, at + n)

\* --------------------------------------------------------------- errors
\* Box<dyn Error> values.  A format error is the message get_args builds
\* (prefix, then parse_num's message); an I/O error names the operation that
\* failed.
NoError == [kind |-> "none", prefix |-> "", msg |-> <<>>]
FormatError(prefix, msg) == [kind |-> "format", prefix |-> prefix, msg |-> msg]
IoError(op) == [kind |-> "io", prefix |-> op, msg |-> <<>>]

\* --------------------------------------------------------- output records
\* One record per print!/println!/eprintln! call.
Header(n, name) ==
    [file |-> n, kind |-> "header", name |-> name, blank |-> n > 0, bytes |-> <<>>]
Content(n, bytes) ==
    [file |-> n, kind |-> "content", name |-> <<>>, blank |-> FALSE, bytes |-> bytes]
Diagnostic(from, name, e) == [from |-> from, name |-> name, error |-> e]

\* ------------------------------------------------------------ the inputs
DefaultLines == <<"1", "0">>
NoBytesArg == [given |-> FALSE, tok |-> <<>>]
BytesArg(tok) == [given |-> TRUE, tok |-> tok]
\* the count tokens a run is started with
RunTokens == { <<"+", "0">>, <<"0">>, <<"1">>, <<"-", "2">>, <<"+", "2">>, <<"a">> }
FileName(i) == <<"f", i>>
Tokens(n) == UNION {[1..k -> Chars] : k \in 0..n}

NoConfig == [lines |-> PlusZero, bytes |-> [given |-> FALSE, value |-> PlusZero]]

\* ----------------------------------------------------------------- Init
\* everything but the inputs and pc, as it is when the process starts
StartState ==
    /\ config = NoConfig
    /\ file_num = 0
    /\ err = NoError
    /\ exit_code = -1
    /\ handles = {}
    /\ disk = <<>>
    /\ budget = MaxDiskBytes
    /\ modified = FALSE
    /\ count_pos = 0
    /\ num_lines = 0
    /\ num_bytes = 0
    /\ total_lines = 0
    /\ total_bytes = 0
    /\ start_index = None
    /\ line_num = 0
    /\ pos = 0
    /\ buf_capacity = 0
    /\ stdout = <<>>
    /\ stderr = <<>>

NoCommandLine ==
    /\ lines_arg = DefaultLines
    /\ bytes_arg = NoBytesArg
    /\ quiet = FALSE
    /\ files = <<>>

NoParse == p_val = <<>> /\ p_parsed = Err(<<>>)
NoResolve == r_take_val = PlusZero /\ r_total = 0 /\ r_index = None

Init ==
    /\ pc = "get_args"
    /\ \/ lines_arg \in RunTokens \cup {DefaultLines} /\ bytes_arg = NoBytesArg
       \/ lines_arg = DefaultLines /\ bytes_arg \in {BytesArg(t) : t \in RunTokens}
    /\ quiet \in BOOLEAN
    /\ \E n \in 1..MaxFiles : files = [i \in 1..n |-> FileName(i)]
    /\ StartState
    /\ NoParse
    /\ NoResolve

\* the variables a step of the program never changes
Inputs == <<lines_arg, bytes_arg, quiet, files, p_val, p_parsed, r_take_val,
            r_total, r_index>>
\* the locals of one iteration of run's loop
Locals == <<count_pos, num_lines, num_bytes, total_lines, total_bytes,
            start_index, line_num, pos, buf_capacity>>
LocalsDropped ==
    /\ count_pos' = 0
    /\ num_lines' = 0
    /\ num_bytes' = 0
    /\ total_lines' = 0
    /\ total_bytes' = 0
    /\ start_index' = None
    /\ line_num' = 0
    /\ pos' = 0
    /\ buf_capacity' = 0

\* mutant: an Err of the byte count is dropped (.ok() in place of `?`), and
\* the run goes on in line mode
GetArgs_BytesErrorDropped ==
    /\ pc = "get_args"
    /\ LET lines == parse_num(lines_arg)
           bytes == parse_num(bytes_arg.tok)
       IN  IF ~lines.ok THEN
               /\ err' = FormatError("illegal line count -- ", lines.err)
               /\ pc' = "main_err"
               /\ UNCHANGED config
           ELSE
               /\ config' = [lines |-> lines.value,
                             bytes |-> IF bytes_arg.given /\ bytes.ok
                                       THEN [given |-> TRUE, value |-> bytes.value]
                                       ELSE [given |-> FALSE, value |-> PlusZero]]
               /\ pc' = "run"
               /\ UNCHANGED err
    /\ UNCHANGED <<file_num, exit_code, handles, disk, budget, modified,
                   stdout, stderr>>
    /\ UNCHANGED Locals
    /\ UNCHANGED Inputs

\* --------------------------------------------------------------- get_args
GetArgs ==
    /\ pc = "get_args"
    /\ LET lines == parse_num(lines_arg)
           bytes == parse_num(bytes_arg.tok)
       IN  IF ~lines.ok THEN
               /\ err' = FormatError("illegal line count -- ", lines.err)
               /\ pc' = "main_err"
               /\ UNCHANGED config
           ELSE IF bytes_arg.given /\ ~bytes.ok THEN
               /\ err' = FormatError("illegal byte count -- ", bytes.err)
               /\ pc' = "main_err"
               /\ UNCHANGED config
           ELSE
               /\ config' = [lines |-> lines.value,
                             bytes |-> IF bytes_arg.given
                                       THEN [given |-> TRUE, value |-> bytes.value]
                                       ELSE [given |-> FALSE, value |-> PlusZero]]
               /\ pc' = "run"
               /\ UNCHANGED err
    /\ UNCHANGED <<file_num, exit_code, handles, disk, budget, modified,
                   stdout, stderr>>
    /\ UNCHANGED Locals
    /\ UNCHANGED Inputs

\* ------------------------------------------------------------------- main
\* mutant: println! in place of eprintln!
MainErr_ToStdout ==
    /\ pc = "main_err"
    /\ stdout' = Append(stdout, Diagnostic("main", <<>>, err))
    /\ exit_code' = 1
    /\ pc' = "exit"
    /\ UNCHANGED <<config, file_num, err, handles, disk, budget, modified, stderr>>
    /\ UNCHANGED Locals
    /\ UNCHANGED Inputs

\* main: eprintln!("{}", e); exit(1)
MainErr ==
    /\ pc = "main_err"
    /\ stderr' = Append(stderr, Diagnostic("main", <<>>, err))
    /\ exit_code' = 1
    /\ pc' = "exit"
    /\ UNCHANGED <<config, file_num, err, handles, disk, budget, modified, stdout>>
    /\ UNCHANGED Locals
    /\ UNCHANGED Inputs

\* an Err leaves run through `?`: the locals of the iteration are dropped,
\* which closes every handle
Propagate(e) ==
    /\ err' = e
    /\ handles' = {}
    /\ disk' = <<>>
    /\ modified' = FALSE
    /\ LocalsDropped
    /\ pc' = "main_err"
    /\ UNCHANGED <<config, file_num, exit_code, budget, stdout, stderr>>
    /\ UNCHANGED Inputs

\* mutant: File::open(&filename)? in place of the match, so that a file that
\* cannot be opened ends run with the error
OpenFails_Propagates ==
    /\ pc = "run"
    /\ file_num < Len(files)
    /\ Propagate(IoError("open"))

\* -------------------------------------------------------------------- run
\* File::open(&filename) fails: eprintln!("{}: {}", filename, err), and the
\* loop goes on with the next file.
OpenFails ==
    /\ pc = "run"
    /\ file_num < Len(files)
    /\ stderr' = Append(stderr,
                        Diagnostic("run", files[file_num + 1], IoError("open")))
    /\ file_num' = file_num + 1
    /\ UNCHANGED <<config, pc, err, exit_code, handles, disk, budget, modified,
                   stdout>>
    /\ UNCHANGED Locals
    /\ UNCHANGED Inputs

\* mutant: the blank line goes before a header only when something was
\* already written to the data output
OpenFile_BlankAfterOutput ==
    /\ pc = "run"
    /\ file_num < Len(files)
    /\ \E content \in Contents(budget) :
         /\ disk' = content
         /\ budget' = budget - Len(content)
    /\ modified' = FALSE
    /\ handles' = handles \cup {<<"run", file_num>>}
    /\ stdout' = IF ~quiet /\ Len(files) > 1
                 THEN Append(stdout,
                             [Header(file_num, files[file_num + 1])
                                  EXCEPT !.blank = (stdout # <<>>)])
                 ELSE stdout
    /\ pc' = "count_open"
    /\ UNCHANGED <<config, file_num, err, exit_code, stderr>>
    /\ UNCHANGED Locals
    /\ UNCHANGED Inputs

\* File::open(&filename) succeeds on a file holding `content`; the header is
\* printed when quiet is off and more than one file is listed.
OpenFile ==
    /\ pc = "run"
    /\ file_num < Len(files)
    /\ \E content \in Contents(budget) :
         /\ disk' = content
         /\ budget' = budget - Len(content)
    /\ modified' = FALSE
    /\ handles' = handles \cup {<<"run", file_num>>}
    /\ stdout' = IF ~quiet /\ Len(files) > 1
                 THEN Append(stdout, Header(file_num, files[file_num + 1]))
                 ELSE stdout
    /\ pc' = "count_open"
    /\ UNCHANGED <<config, file_num, err, exit_code, stderr>>
    /\ UNCHANGED Locals
    /\ UNCHANGED Inputs

\* mutant: the status is 1 when a file could not be opened
RunReturns_OpenFailureCounts ==
    /\ pc = "run"
    /\ file_num = Len(files)
    /\ exit_code' = IF stderr # <<>> THEN 1 ELSE 0
    /\ pc' = "exit"
    /\ UNCHANGED <<config, file_num, err, handles, disk, budget, modified,
                   stdout, stderr>>
    /\ UNCHANGED Locals
    /\ UNCHANGED Inputs

\* the loop is over: Ok(()), and main returns
RunReturns ==
    /\ pc = "run"
    /\ file_num = Len(files)
    /\ exit_code' = 0
    /\ pc' = "exit"
    /\ UNCHANGED <<config, file_num, err, handles, disk, budget, modified,
                   stdout, stderr>>
    /\ UNCHANGED Locals
    /\ UNCHANGED Inputs

\* another process appends a byte to the file being processed
AppendByOther ==
    /\ pc \in {"count_open", "count_loop", "resolve", "lines_loop",
               "bytes_seek", "bytes_read"}
    /\ budget > 0
    /\ \E b \in ByteAlphabet : disk' = Append(disk, b)
    /\ budget' = budget - 1
    /\ modified' = TRUE
    /\ UNCHANGED <<config, pc, file_num, err, exit_code, handles, stdout, stderr>>
    /\ UNCHANGED Locals
    /\ UNCHANGED Inputs

\* ------------------------------------------------------ count_lines_bytes
\* mutant: in byte mode the counting pass is skipped and the byte total is
\* taken from the size of the file
CountOpen_BypassInByteMode ==
    /\ pc = "count_open"
    /\ IF config.bytes.given THEN
          /\ total_bytes' = Len(disk)
          /\ pc' = "resolve"
          /\ UNCHANGED <<config, file_num, err, exit_code, handles, disk,
                         budget, modified, count_pos, num_lines, num_bytes,
                         total_lines, start_index, line_num, pos,
                         buf_capacity, stdout, stderr>>
          /\ UNCHANGED Inputs
       ELSE
          \/ Propagate(IoError("open"))
          \/ /\ handles' = handles \cup {<<"count", file_num>>}
             /\ count_pos' = 0
             /\ num_lines' = 0
             /\ num_bytes' = 0
             /\ buf_capacity' = 0
             /\ pc' = "count_loop"
             /\ UNCHANGED <<config, file_num, err, exit_code, disk, budget,
                            modified, total_lines, total_bytes, start_index,
                            line_num, pos, stdout, stderr>>
             /\ UNCHANGED Inputs

\* File::open(filename)? inside count_lines_bytes
CountOpen ==
    /\ pc = "count_open"
    /\ \/ Propagate(IoError("open"))
       \/ /\ handles' = handles \cup {<<"count", file_num>>}
          /\ count_pos' = 0
          /\ num_lines' = 0
          /\ num_bytes' = 0
          /\ buf_capacity' = 0
          /\ pc' = "count_loop"
          /\ UNCHANGED <<config, file_num, err, exit_code, disk, budget,
                         modified, total_lines, total_bytes, start_index,
                         line_num, pos, stdout, stderr>>
          /\ UNCHANGED Inputs

\* mutant: a segment counts as a line only if it ends with the terminator
CountRead_TerminatedOnly ==
    /\ pc = "count_loop"
    /\ \/ Propagate(IoError("read"))
       \/ /\ LET bytes_read == read_until(disk, count_pos)
             IN  IF bytes_read = 0 THEN
                     /\ total_lines' = num_lines
                     /\ total_bytes' = num_bytes
                     /\ handles' = handles \ {<<"count", file_num>>}
                     /\ pc' = "resolve"
                     /\ buf_capacity' = 0
                     /\ UNCHANGED <<count_pos, num_lines, num_bytes>>
                 ELSE
                     /\ num_lines' = IF disk[count_pos + bytes_read] = Newline
                                     THEN WrapI64(num_lines + 1) ELSE num_lines
                     /\ num_bytes' = WrapI64(num_bytes + bytes_read)
                     /\ count_pos' = count_pos + bytes_read
                     /\ buf_capacity' = IF bytes_read > buf_capacity
                                        THEN bytes_read ELSE buf_capacity
                     /\ UNCHANGED <<total_lines, total_bytes, handles, pc>>
          /\ UNCHANGED <<config, file_num, err, exit_code, disk, budget,
                         modified, start_index, line_num, pos, stdout, stderr>>
          /\ UNCHANGED Inputs

\* mutant: the counting loop without its break on a read of 0 bytes
CountRead_NoBreak ==
    /\ pc = "count_loop"
    /\ \/ Propagate(IoError("read"))
       \/ /\ LET bytes_read == read_until(disk, count_pos)
             IN  IF bytes_read = 0 THEN
                     UNCHANGED <<total_lines, total_bytes, handles, pc,
                                 buf_capacity, count_pos, num_lines, num_bytes>>
                 ELSE
                     /\ num_lines' = WrapI64(num_lines + 1)
                     /\ num_bytes' = WrapI64(num_bytes + bytes_read)
                     /\ count_pos' = count_pos + bytes_read
                     /\ buf_capacity' = IF bytes_read > buf_capacity
                                        THEN bytes_read ELSE buf_capacity
                     /\ UNCHANGED <<total_lines, total_bytes, handles, pc>>
          /\ UNCHANGED <<config, file_num, err, exit_code, disk, budget,
                         modified, start_index, line_num, pos, stdout, stderr>>
          /\ UNCHANGED Inputs

\* one iteration of the counting loop; at end of file the function returns
\* (num_lines, num_bytes) and its reader is dropped
CountRead ==
    /\ pc = "count_loop"
    /\ \/ Propagate(IoError("read"))
       \/ /\ LET bytes_read == read_until(disk, count_pos)
             IN  IF bytes_read = 0 THEN
                     /\ total_lines' = num_lines
                     /\ total_bytes' = num_bytes
                     /\ handles' = handles \ {<<"count", file_num>>}
                     /\ pc' = "resolve"
                     /\ buf_capacity' = 0
                     /\ UNCHANGED <<count_pos, num_lines, num_bytes>>
                 ELSE
                     /\ num_lines' = WrapI64(num_lines + 1)
                     /\ num_bytes' = WrapI64(num_bytes + bytes_read)
                     /\ count_pos' = count_pos + bytes_read
                     /\ buf_capacity' = IF bytes_read > buf_capacity
                                        THEN bytes_read ELSE buf_capacity
                     /\ UNCHANGED <<total_lines, total_bytes, handles, pc>>
          /\ UNCHANGED <<config, file_num, err, exit_code, disk, budget,
                         modified, start_index, line_num, pos, stdout, stderr>>
          /\ UNCHANGED Inputs

\* ------------------------------------------- print_lines / print_bytes
\* run picks the emitter; either one starts with get_start_index
ByteMode == config.bytes.given

\* mutant: the pair count_lines_bytes returned is taken in the other order,
\* (total_bytes, total_lines)
Resolve_TotalsSwapped ==
    /\ pc = "resolve"
    /\ LET s == IF ByteMode
                THEN get_start_index(config.bytes.value, total_lines)
                ELSE get_start_index(config.lines, total_bytes)
       IN  /\ start_index' = s
           /\ pc' = IF ~s.some THEN "file_end"
                    ELSE IF ByteMode THEN "bytes_seek" ELSE "lines_loop"
    /\ line_num' = 0
    /\ UNCHANGED <<config, file_num, err, exit_code, handles, disk, budget,
                   modified, count_pos, num_lines, num_bytes, total_lines,
                   total_bytes, pos, buf_capacity, stdout, stderr>>
    /\ UNCHANGED Inputs

\* mutant: the emitter goes on to its seek or its loop when get_start_index
\* returned None, taking 0 for the start
Resolve_NoShortCircuit ==
    /\ pc = "resolve"
    /\ LET s == IF ByteMode
                THEN get_start_index(config.bytes.value, total_bytes)
                ELSE get_start_index(config.lines, total_lines)
       IN  /\ start_index' = s
           /\ pc' = IF ByteMode THEN "bytes_seek" ELSE "lines_loop"
    /\ line_num' = 0
    /\ UNCHANGED <<config, file_num, err, exit_code, handles, disk, budget,
                   modified, count_pos, num_lines, num_bytes, total_lines,
                   total_bytes, pos, buf_capacity, stdout, stderr>>
    /\ UNCHANGED Inputs

Resolve ==
    /\ pc = "resolve"
    /\ LET s == IF ByteMode
                THEN get_start_index(config.bytes.value, total_bytes)
                ELSE get_start_index(config.lines, total_lines)
       IN  /\ start_index' = s
           /\ pc' = IF ~s.some THEN "file_end"
                    ELSE IF ByteMode THEN "bytes_seek" ELSE "lines_loop"
    /\ line_num' = 0
    /\ UNCHANGED <<config, file_num, err, exit_code, handles, disk, budget,
                   modified, count_pos, num_lines, num_bytes, total_lines,
                   total_bytes, pos, buf_capacity, stdout, stderr>>
    /\ UNCHANGED Inputs

\* mutant: `line_num > start`
ShouldPrint_Gt(n, first) == n > first

\* mutant: `line_num <= start`
ShouldPrint_Le(n, first) == n <= first

\* print_lines' test `line_num >= start`
ShouldPrint(n, first) == n >= first

\* mutant: the line is written ahead of what the data output already holds
LinesRead_Prepend ==
    /\ pc = "lines_loop"
    /\ \/ Propagate(IoError("read"))
       \/ /\ LET byte_read == read_until(disk, pos)
                 buf == Slice(disk, pos, byte_read)
             IN  IF byte_read = 0 THEN
                     /\ pc' = "file_end"
                     /\ UNCHANGED <<stdout, line_num, pos, buf_capacity>>
                 ELSE
                     /\ stdout' = IF ShouldPrint(line_num, start_index.idx)
                                  THEN <<Content(file_num, from_utf8_lossy(buf))>>
                                       \o stdout
                                  ELSE stdout
                     /\ line_num' = line_num + 1
                     /\ pos' = pos + byte_read
                     /\ buf_capacity' = IF byte_read > buf_capacity
                                        THEN byte_read ELSE buf_capacity
                     /\ UNCHANGED pc
          /\ UNCHANGED <<config, file_num, err, exit_code, handles, disk,
                         budget, modified, count_pos, num_lines, num_bytes,
                         total_lines, total_bytes, start_index, stderr>>
          /\ UNCHANGED Inputs

\* one iteration of print_lines' loop
LinesRead ==
    /\ pc = "lines_loop"
    /\ \/ Propagate(IoError("read"))
       \/ /\ LET byte_read == read_until(disk, pos)
                 buf == Slice(disk, pos, byte_read)
             IN  IF byte_read = 0 THEN
                     /\ pc' = "file_end"
                     /\ UNCHANGED <<stdout, line_num, pos, buf_capacity>>
                 ELSE
                     /\ stdout' = IF ShouldPrint(line_num, start_index.idx)
                                  THEN Append(stdout,
                                              Content(file_num, from_utf8_lossy(buf)))
                                  ELSE stdout
                     /\ line_num' = line_num + 1
                     /\ pos' = pos + byte_read
                     /\ buf_capacity' = IF byte_read > buf_capacity
                                        THEN byte_read ELSE buf_capacity
                     /\ UNCHANGED pc
          /\ UNCHANGED <<config, file_num, err, exit_code, handles, disk,
                         budget, modified, count_pos, num_lines, num_bytes,
                         total_lines, total_bytes, start_index, stderr>>
          /\ UNCHANGED Inputs

\* mutant: print_bytes without the seek, the cursor stays where it is
BytesSeek_NoSeek ==
    /\ pc = "bytes_seek"
    /\ \/ Propagate(IoError("seek"))
       \/ /\ pos' = pos
          /\ pc' = "bytes_read"
          /\ UNCHANGED <<config, file_num, err, exit_code, handles, disk,
                         budget, modified, count_pos, num_lines, num_bytes,
                         total_lines, total_bytes, start_index, line_num,
                         buf_capacity, stdout, stderr>>
          /\ UNCHANGED Inputs

\* file.seek(SeekFrom::Start(start))?
BytesSeek ==
    /\ pc = "bytes_seek"
    /\ \/ Propagate(IoError("seek"))
       \/ /\ pos' = start_index.idx
          /\ pc' = "bytes_read"
          /\ UNCHANGED <<config, file_num, err, exit_code, handles, disk,
                         budget, modified, count_pos, num_lines, num_bytes,
                         total_lines, total_bytes, start_index, line_num,
                         buf_capacity, stdout, stderr>>
          /\ UNCHANGED Inputs

\* mutant: the read stops at the byte total the counting pass returned
\* (file.take(total_bytes - start))
BytesRead_UpToTotal ==
    /\ pc = "bytes_read"
    /\ \/ Propagate(IoError("read"))
       \/ /\ LET end == IF total_bytes < Len(disk) THEN total_bytes ELSE Len(disk)
                 buffer == IF pos >= end THEN <<>>
                           ELSE Slice(disk, pos, end - pos)
             IN  /\ stdout' = IF buffer # <<>>
                              THEN Append(stdout,
                                          Content(file_num, from_utf8_lossy(buffer)))
                              ELSE stdout
                 /\ pos' = pos + Len(buffer)
                 /\ buf_capacity' = Len(buffer)
          /\ pc' = "file_end"
          /\ UNCHANGED <<config, file_num, err, exit_code, handles, disk, budget,
                         modified, count_pos, num_lines, num_bytes,
                         total_lines, total_bytes, start_index, line_num, stderr>>
          /\ UNCHANGED Inputs

\* file.read_to_end(&mut buffer)? and the print of a non-empty buffer
BytesRead ==
    /\ pc = "bytes_read"
    /\ \/ Propagate(IoError("read"))
       \/ /\ LET buffer == IF pos >= Len(disk) THEN <<>>
                           ELSE Slice(disk, pos, Len(disk) - pos)
             IN  /\ stdout' = IF buffer # <<>>
                              THEN Append(stdout,
                                          Content(file_num, from_utf8_lossy(buffer)))
                              ELSE stdout
                 /\ pos' = pos + Len(buffer)
                 /\ buf_capacity' = Len(buffer)
          /\ pc' = "file_end"
          /\ UNCHANGED <<config, file_num, err, exit_code, handles, disk,
                         budget, modified, count_pos, num_lines, num_bytes,
                         total_lines, total_bytes, start_index, line_num, stderr>>
          /\ UNCHANGED Inputs

\* mutant: the handle run opened is kept (mem::forget) when the loop body ends
CloseFile_HandleKept ==
    /\ pc = "file_end"
    /\ file_num' = file_num + 1
    /\ disk' = <<>>
    /\ modified' = FALSE
    /\ LocalsDropped
    /\ pc' = "run"
    /\ UNCHANGED <<config, err, exit_code, handles, budget, stdout, stderr>>
    /\ UNCHANGED Inputs

\* the end of the loop body: `file` goes out of scope and is closed
CloseFile ==
    /\ pc = "file_end"
    /\ handles' = handles \ {<<"run", file_num>>}
    /\ file_num' = file_num + 1
    /\ disk' = <<>>
    /\ modified' = FALSE
    /\ LocalsDropped
    /\ pc' = "run"
    /\ UNCHANGED <<config, err, exit_code, budget, stdout, stderr>>
    /\ UNCHANGED Inputs

Next ==
    \/ GetArgs
    \/ MainErr
    \/ OpenFails
    \/ OpenFile
    \/ RunReturns
    \/ AppendByOther
    \/ CountOpen
    \/ CountRead
    \/ Resolve
    \/ LinesRead
    \/ BytesSeek
    \/ BytesRead
    \/ CloseFile

Spec == Init /\ [][Next]_vars

\* the steps of the program itself, which the operating system keeps
\* scheduling: blocking I/O returns, with a result or an error
ProgramStep ==
    \/ GetArgs
    \/ MainErr
    \/ OpenFails
    \/ OpenFile
    \/ RunReturns
    \/ CountOpen
    \/ CountRead
    \/ Resolve
    \/ LinesRead
    \/ BytesSeek
    \/ BytesRead
    \/ CloseFile

\* a step that is not the failure of an I/O operation
Returns == err' = err \/ err'.kind = "format"

\* Whether an I/O operation fails is not for the program to choose, so no
\* failure is ever forced: what is assumed is that the program keeps taking
\* its steps when the operations succeed.
\* Termination does not depend on which count is asked for: the runs
\* started here ask for the default last 10 lines or for all bytes ("+0"),
\* which makes both emitters go through every byte of every file.
InitLive ==
    /\ pc = "get_args"
    /\ lines_arg = DefaultLines
    /\ bytes_arg \in {NoBytesArg, BytesArg(<<"+", "0">>)}
    /\ quiet = FALSE
    /\ \E n \in 1..MaxFiles : files = [i \in 1..n |-> FileName(i)]
    /\ StartState
    /\ NoParse
    /\ NoResolve

SpecLive == InitLive /\ [][Next]_vars /\ WF_vars(ProgramStep /\ Returns)

\* ------------------------------------------- parse_num applied on its own
InitParse ==
    /\ pc = "parse_num"
    /\ p_val \in Tokens(MaxTokenLen)
    /\ p_parsed = Err(<<>>)
    /\ NoCommandLine
    /\ StartState
    /\ NoResolve

ParseNum ==
    /\ pc = "parse_num"
    /\ p_parsed' = parse_num(p_val)
    /\ pc' = "parsed"
    /\ UNCHANGED <<lines_arg, bytes_arg, quiet, files, config, file_num, err,
                   exit_code, handles, disk, budget, modified, stdout, stderr,
                   p_val, r_take_val, r_total, r_index>>
    /\ UNCHANGED Locals

SpecParse == InitParse /\ [][ParseNum]_vars

\* ------------------------------------- get_start_index applied on its own
InitResolve ==
    /\ pc = "get_start_index"
    /\ r_take_val \in TakeValue
    /\ r_total \in 0..I64_MAX
    /\ r_index = None
    /\ NoCommandLine
    /\ StartState
    /\ NoParse

GetStartIndex ==
    /\ pc = "get_start_index"
    /\ r_index' = get_start_index(r_take_val, r_total)
    /\ pc' = "resolved"
    /\ UNCHANGED <<lines_arg, bytes_arg, quiet, files, config, file_num, err,
                   exit_code, handles, disk, budget, modified, stdout, stderr,
                   p_val, p_parsed, r_take_val, r_total>>
    /\ UNCHANGED Locals

SpecResolve == InitResolve /\ [][GetStartIndex]_vars

\* --------------------------------- the resolver on its own, and the run
InitResolveRun == Init \/ InitResolve
NextResolveRun == Next \/ GetStartIndex
SpecResolveRun == InitResolveRun /\ [][NextResolveRun]_vars

\* ======================================================================
\* Properties
\* ======================================================================

\* ---- what the properties speak of
\* the content written to the data output for the file at index n
RECURSIVE ContentOf(_, _)
ContentOf(out, n) ==
    IF out = <<>> THEN <<>>
    ELSE (IF Head(out).kind = "content" /\ Head(out).file = n
          THEN Head(out).bytes ELSE <<>>) \o ContentOf(Tail(out), n)

\* the lines of a file: maximal runs of bytes ending with the terminator,
\* and the unterminated rest, if any
RECURSIVE LinesOf(_)
LinesOf(content) ==
    IF content = <<>> THEN <<>>
    ELSE LET ends == {i \in 1..Len(content) : content[i] = Newline}
             n == IF ends = {} THEN Len(content)
                  ELSE CHOOSE i \in ends : \A j \in ends : i <= j
         IN  <<SubSeq(content, 1, n)>> \o LinesOf(SubSeq(content, n + 1, Len(content)))

RECURSIVE Concat(_)
Concat(seqs) == IF seqs = <<>> THEN <<>> ELSE Head(seqs) \o Concat(Tail(seqs))

Min(a, b) == IF a < b THEN a ELSE b

\* the final min(k, L) lines of a file of L lines
LastLines(content, k) ==
    LET all == LinesOf(content)
        L == Len(all)
    IN  SubSeq(all, L - Min(k, L) + 1, L)

ValidUtf8(bytes) == \A i \in 1..Len(bytes) : bytes[i] < 128

\* a line-mode run has finished a file no other process touched, and the
\* spec counts back from the end
FromEndLinesDone ==
    /\ pc = "file_end"
    /\ ~ByteMode
    /\ ~modified
    /\ config.lines.tag = "TakeNum"
    /\ config.lines.num <= -1

\* C1 as stated: in line mode, for an unmodified file of L lines and a
\* from-end spec Signed(-k), k >= 1, the content emitted for the file is
\* byte for byte the final min(k, L) lines of the file.
C1_ByteIdenticalSuffix ==
    FromEndLinesDone =>
        ContentOf(stdout, file_num) = Concat(LastLines(disk, -config.lines.num))

\* C1 amended: in line mode, for an unmodified file of L lines read without
\* an I/O error and a from-end spec Signed(-k), k >= 1, the content emitted
\* is the final min(k, L) lines in their order, each with its terminator and
\* each passed through the lossy UTF-8 decoding; it is byte-identical to the
\* suffix of the file when those lines are valid UTF-8.
C1_LossySuffix ==
    FromEndLinesDone =>
        LET last == LastLines(disk, -config.lines.num)
        IN  /\ ContentOf(stdout, file_num)
                 = Concat([i \in 1..Len(last) |-> from_utf8_lossy(last[i])])
            /\ ValidUtf8(Concat(last)) => ContentOf(stdout, file_num) = Concat(last)

\* C1 witness: a three-line file, the last line without terminator, after
\* the run printed its last line for the spec "1"
C1_Witness ==
    /\ FromEndLinesDone
    /\ config.lines = TakeNum(-1)
    /\ disk = <<97, 10, 97>>
    /\ ContentOf(stdout, file_num) = <<97>>

\* ---- get_start_index
Resolved == pc = "resolved"

\* C2: for Signed(n), n > 0, and total > 0, get_start_index returns
\* Some(n-1) when n <= total and None when n > total.
C2_FromStart ==
    (Resolved /\ r_take_val.tag = "TakeNum" /\ r_take_val.num > 0 /\ r_total > 0) =>
        r_index = IF r_take_val.num <= r_total
                  THEN Some(r_take_val.num - 1) ELSE None

\* C2 witness: a start one past the end resolves to None
C2_Witness ==
    Resolved /\ r_take_val = TakeNum(3) /\ r_total = 2 /\ r_index = None

\* C3: for Signed(n), n < 0, and total > 0, get_start_index returns
\* Some(total+n) when total+n >= 0 and Some(0) when total+n < 0, never None.
C3_FromEnd ==
    (Resolved /\ r_take_val.tag = "TakeNum" /\ r_take_val.num < 0 /\ r_total > 0) =>
        /\ r_index.some
        /\ r_index = IF r_total + r_take_val.num >= 0
                     THEN Some(r_total + r_take_val.num) ELSE Some(0)

\* C3 witness: the largest request from the end against one unit is clamped
C3_Witness ==
    Resolved /\ r_take_val = TakeNum(I64_MIN) /\ r_total = 1 /\ r_index = Some(0)

C5_SignedZero ==
    (Resolved /\ r_take_val = TakeNum(0)) =>
        /\ r_take_val # PlusZero
        /\ r_index = None
        /\ r_total > 0 => get_start_index(PlusZero, r_total) = Some(0)

\* C5 witness: Signed(0) against a non-empty file
C5_Witness ==
    Resolved /\ r_take_val = TakeNum(0) /\ r_total = 3 /\ r_index = None

\* the total the emitter of the current file resolves against
UsedTotal == IF ByteMode THEN total_bytes ELSE total_lines
Counted == pc \in {"lines_loop", "bytes_seek", "bytes_read", "file_end"}

\* C6: for total = 0 the resolver returns None for every spec, so that a
\* file counted as empty goes from the resolver straight to its end, in
\* either mode, with no content emitted for it and no error.
C6_EmptyFile ==
    /\ (Resolved /\ r_total = 0) => r_index = None
    /\ (Counted /\ UsedTotal = 0) =>
           /\ pc = "file_end"
           /\ start_index = None
           /\ ContentOf(stdout, file_num) = <<>>
           /\ err = NoError

\* C6 witness: a byte-mode run at the end of an empty file, its spec
\* counting back from the end
C6_Witness ==
    /\ pc = "file_end"
    /\ ByteMode
    /\ config.bytes.value = TakeNum(-2)
    /\ disk = <<>>
    /\ total_bytes = 0
    /\ start_index = None

\* ---- parse_num
Parsed == pc = "parsed"

\* the grammar of a count token: an optional single sign character, then
\* one or more of the decimal digits 0-9
TokenSign(tok) == IF Len(tok) > 0 /\ tok[1] \in SignChars THEN tok[1] ELSE ""
TokenDigits(tok) == IF TokenSign(tok) = "" THEN tok ELSE Tail(tok)
Grammatical(tok) ==
    /\ Len(TokenDigits(tok)) >= 1
    /\ \A i \in 1..Len(TokenDigits(tok)) : TokenDigits(tok)[i] \in AsciiDigitSet

\* the number a digit string denotes
RECURSIVE Magnitude(_)
Magnitude(digits) ==
    IF digits = <<>> THEN 0
    ELSE 10 * Magnitude(SubSeq(digits, 1, Len(digits) - 1))
         + DigitValue(digits[Len(digits)])

\* the signed value of a grammatical token: digits without a sign count as
\* negative
SignedValue(tok) ==
    IF TokenSign(tok) = "+" THEN Magnitude(TokenDigits(tok))
    ELSE -Magnitude(TokenDigits(tok))

\* C7: for every digit string of magnitude N that fits, a token with no
\* sign or with '-' parses to Signed(-N) and a token with '+' and N > 0 to
\* Signed(+N).
C7_SignConvention ==
    (Parsed /\ Grammatical(p_val) /\ SignedValue(p_val) \in I64) =>
        LET N == Magnitude(TokenDigits(p_val))
        IN  /\ TokenSign(p_val) # "+" => p_parsed = Ok(TakeNum(-N))
            /\ (TokenSign(p_val) = "+" /\ N > 0) => p_parsed = Ok(TakeNum(N))

\* C7 witness: the bare token "5" parsed to Signed(-5)
C7_Witness ==
    Parsed /\ p_val = <<"5">> /\ p_parsed = Ok(TakeNum(-5))

\* C8: parse_num yields PlusZero exactly for a '+' sign with magnitude 0,
\* leading zeros included; magnitude 0 with no sign or with '-' yields
\* Signed(0).
C8_PlusZero ==
    Parsed =>
        LET zero == Grammatical(p_val) /\ Magnitude(TokenDigits(p_val)) = 0
        IN  /\ p_parsed = Ok(PlusZero) <=> (zero /\ TokenSign(p_val) = "+")
            /\ (zero /\ TokenSign(p_val) # "+") => p_parsed = Ok(TakeNum(0))

\* C8 witness: "+00" parsed to PlusZero
C8_Witness ==
    Parsed /\ p_val = <<"+", "0", "0">> /\ p_parsed = Ok(PlusZero)

\* C9 as stated: parse_num accepts exactly the grammatical tokens, and
\* every other token fails with the token itself as the message.
C9_AcceptsExactlyGrammar ==
    Parsed =>
        /\ p_parsed.ok <=> Grammatical(p_val)
        /\ ~Grammatical(p_val) => p_parsed = Err(p_val)

\* C9 amended: parse_num accepts exactly the tokens made of an optional
\* single sign and one or more digits 0-9 whose signed value lies in the
\* signed range of the integer type; every other token fails with an error
\* whose message is the token unchanged.
C9_AcceptsGrammarInRange ==
    Parsed =>
        /\ p_parsed.ok <=> (Grammatical(p_val) /\ SignedValue(p_val) \in I64)
        /\ ~p_parsed.ok => p_parsed = Err(p_val)

\* C9 witness: a token of two signs and a digit, failed with itself as the
\* message
C9_Witness ==
    Parsed /\ p_val = <<"+", "-", "1">> /\ p_parsed = Err(<<"+", "-", "1">>)

\* the representable extreme nearest to a value out of range
Clamped(x) == IF x > I64_MAX THEN I64_MAX ELSE IF x < I64_MIN THEN I64_MIN ELSE x

\* C10 as stated: a grammatical token whose signed value lies outside the
\* signed range is not rejected but parsed to the nearest extreme.
C10_OverflowClamped ==
    (Parsed /\ Grammatical(p_val) /\ SignedValue(p_val) \notin I64) =>
        p_parsed = Ok(TakeNum(Clamped(SignedValue(p_val))))

\* C10 amended: a grammatical token whose signed value lies outside the
\* signed range is rejected: parse_num fails with the token unchanged as
\* the message, and no value is clamped.
C10_OverflowRejected ==
    (Parsed /\ Grammatical(p_val) /\ SignedValue(p_val) \notin I64) =>
        p_parsed = Err(p_val)

\* C10 witness: the smallest magnitude past the maximum, with a '+' sign,
\* rejected
C10_Witness ==
    /\ Parsed
    /\ Grammatical(p_val)
    /\ TokenSign(p_val) = "+"
    /\ SignedValue(p_val) = I64_MAX + 1
    /\ p_parsed = Err(p_val)

\* the digits of a number >= 0, as a token
RECURSIVE DigitsOf(_)
DigitsOf(n) ==
    IF n < 10 THEN <<AsciiDigits[n + 1]>>
    ELSE DigitsOf(n \div 10) \o <<AsciiDigits[(n % 10) + 1]>>

\* C11: parse_num is exact at the boundaries of the signed range: the digits
\* of the maximum without a sign give TakeNum(min + 1), the text of min + 1
\* gives TakeNum(min + 1), '+' and the digits of the maximum give
\* TakeNum(max), the text of the minimum gives TakeNum(min); and every
\* grammatical token whose signed value lies in the range parses to that
\* value (as PlusZero for a '+' sign and magnitude 0, as TakeNum otherwise).
C11_ExactInRange ==
    Parsed =>
        /\ p_val = DigitsOf(I64_MAX) => p_parsed = Ok(TakeNum(I64_MIN + 1))
        /\ p_val = <<"-">> \o DigitsOf(I64_MAX) => p_parsed = Ok(TakeNum(I64_MIN + 1))
        /\ p_val = <<"+">> \o DigitsOf(I64_MAX) => p_parsed = Ok(TakeNum(I64_MAX))
        /\ p_val = <<"-">> \o DigitsOf(-I64_MIN) => p_parsed = Ok(TakeNum(I64_MIN))
        /\ (Grammatical(p_val) /\ SignedValue(p_val) \in I64) =>
               /\ p_parsed.ok
               /\ p_parsed.value.num = SignedValue(p_val)
               /\ p_parsed.value.tag =
                      IF TokenSign(p_val) = "+" /\ SignedValue(p_val) = 0
                      THEN "PlusZero" ELSE "TakeNum"

\* C11 witness: the text of the minimum, parsed to the minimum
C11_Witness ==
    /\ Parsed
    /\ p_val = <<"-">> \o DigitsOf(-I64_MIN)
    /\ p_parsed = Ok(TakeNum(I64_MIN))

\* ---- get_args and main
\* a count token parse_num takes: of the grammar, and its value in range
ValidToken(tok) == Grammatical(tok) /\ SignedValue(tok) \in I64
InvalidCommandLine ==
    ~ValidToken(lines_arg) \/ (bytes_arg.given /\ ~ValidToken(bytes_arg.tok))

\* C12: an invalid line-count or byte-count token is detected once, before
\* any listed file is opened: get_args returns the error, run is never
\* entered, no file is opened or read, and nothing is written to the data
\* output.
C12_InvalidCountStopsRun ==
    InvalidCommandLine =>
        /\ pc \in {"get_args", "main_err", "exit"}
        /\ file_num = 0
        /\ handles = {}
        /\ disk = <<>>
        /\ budget = MaxDiskBytes
        /\ stdout = <<>>
        /\ pc = "get_args" => err = NoError /\ stderr = <<>>
        /\ pc = "main_err" => err.kind = "format" /\ stderr = <<>>
        /\ pc = "exit" => /\ exit_code = 1
                          /\ stderr = <<Diagnostic("main", <<>>, err)>>
                          /\ err.kind = "format"

\* C12 witness: the process has ended on an invalid byte count
C12_Witness ==
    /\ pc = "exit"
    /\ bytes_arg = BytesArg(<<"a">>)
    /\ stderr = <<Diagnostic("main", <<>>,
                             FormatError("illegal byte count -- ", <<"a">>))>>
    /\ stdout = <<>>

\* ---- run
\* the records on the data output that belong to the file at index n
RecordsOf(out, n) == {i \in 1..Len(out) : out[i].file = n}
\* the reports run itself wrote on the diagnostic channel
RunReports == {i \in 1..Len(stderr) : stderr[i].from = "run"}

\* what holds of the files run has reported as not opened
OpenFailuresReported ==
    /\ \A i \in RunReports :
         /\ stderr[i].error = IoError("open")
         /\ \E n \in 0..(file_num - 1) :
              /\ stderr[i].name = files[n + 1]
              /\ RecordsOf(stdout, n) = {}
    /\ (pc = "exit" /\ exit_code = 0) => file_num = Len(files) /\ err = NoError

\* what a step from the head of run's loop does
LoopHeadStep ==
    pc = "run" =>
        /\ pc' \in {"run", "count_open", "exit"}
        /\ err' = NoError
        /\ pc' = "run" =>
               /\ stderr' = Append(stderr, Diagnostic("run", files[file_num + 1],
                                                      IoError("open")))
               /\ stdout' = stdout
               /\ handles' = handles
               /\ file_num' = file_num + 1
               /\ exit_code' = -1
        /\ pc' = "exit" => file_num = Len(files) /\ exit_code' = 0

\* C13: when a listed file cannot be opened, the failure is reported for that
\* file on the diagnostic channel, the file contributes neither header nor
\* content to the data output, the loop goes on with the next file, and run
\* does not return an error because of it.
C13_OpenFailureSkipsFile == []OpenFailuresReported /\ [][LoopHeadStep]_vars

\* C13 witness: two files listed, the first not opened and reported, the
\* second emitted, and the process ended with status 0
C13_Witness ==
    /\ pc = "exit"
    /\ exit_code = 0
    /\ Len(files) = 2
    /\ stderr = <<Diagnostic("run", FileName(1), IoError("open"))>>
    /\ RecordsOf(stdout, 0) = {}
    /\ ContentOf(stdout, 1) # <<>>

\* C14 as stated: a read or seek failure in the middle of a file aborts the
\* processing of that file only: it is reported on the diagnostic channel and
\* every later file of the list is still attempted.
C14_IoFailureAbortsFileOnly ==
    (pc = "exit" /\ err.kind = "io" /\ err.prefix \in {"read", "seek"}) =>
        /\ \E i \in 1..Len(stderr) : stderr[i].error = err
        /\ \A n \in 0..(Len(files) - 1) : n <= file_num

\* C15: files are processed one at a time in the order of the command line,
\* and everything written for one file (header, then content) is written
\* before anything for the next: the data output is the per-file outputs in
\* list order, never interleaved, and holds nothing for a file whose turn
\* has not come.
C15_OutputInFileOrder ==
    /\ \A i, j \in 1..Len(stdout) : i < j => stdout[i].file <= stdout[j].file
    /\ \A i \in 1..Len(stdout) :
         /\ stdout[i].file <= file_num
         /\ stdout[i].file < Len(files)
         /\ pc = "run" => stdout[i].file < file_num
         /\ stdout[i].kind = "header" =>
                \A j \in 1..(i - 1) : stdout[j].file < stdout[i].file

\* C15 witness: two files with headers, each with content on the data output
C15_Witness ==
    /\ pc = "exit"
    /\ Len(files) = 2
    /\ ~quiet
    /\ ContentOf(stdout, 0) # <<>>
    /\ ContentOf(stdout, 1) # <<>>
    /\ Len(stdout) >= 4

\* ---- print_bytes
\* print_bytes has run to its end for a start index that was resolved
BytesEmitted == pc = "file_end" /\ ByteMode /\ start_index.some
\* the bytes of the file from offset s to its end
BytesFrom(content, s) ==
    IF s >= Len(content) THEN <<>> ELSE SubSeq(content, s + 1, Len(content))

\* C16 as stated: for a resolved start index s, print_bytes emits exactly
\* the bytes at indices s .. size-1 of the file, in order; for s = 0 the
\* output is the file's entire content unchanged.
C16_ExactBytes ==
    BytesEmitted =>
        ContentOf(stdout, file_num) = BytesFrom(disk, start_index.idx)

\* C16 amended: for a resolved start index s, print_bytes positions the
\* cursor at s in one seek and emits the bytes at indices s .. size-1 of the
\* file, in order, passed through the lossy UTF-8 decoding; for s = 0 the
\* output is the lossy decoding of the entire content.  The output is the
\* bytes unchanged when they are valid UTF-8.
C16_LossyBytes ==
    /\ (pc = "bytes_read" /\ ByteMode) => pos = start_index.idx
    /\ BytesEmitted =>
        LET rest == BytesFrom(disk, start_index.idx)
        IN  /\ ContentOf(stdout, file_num) = from_utf8_lossy(rest)
            /\ ValidUtf8(rest) => ContentOf(stdout, file_num) = rest

\* C16 witness: the last two bytes of a three-byte file, emitted for "+2"
C16_Witness ==
    /\ BytesEmitted
    /\ disk = <<97, 10, 97>>
    /\ start_index = Some(1)
    /\ ContentOf(stdout, file_num) = <<10, 97>>

\* ---- the two modes
\* count_lines_bytes has returned for the current file
CountDone == pc \in {"resolve", "lines_loop", "bytes_seek", "bytes_read", "file_end"}

Configured == pc # "get_args" /\ err.kind # "format"

\* the lines of a file from the line of index s on
LinesFrom(content, s) ==
    LET all == LinesOf(content)
    IN  IF s >= Len(all) THEN <<>> ELSE SubSeq(all, s + 1, Len(all))

\* C18: at most one of the two specs is active in a run.  With a byte-count
\* spec every file is emitted by the byte emitter, resolved against the byte
\* total, and the line spec (its default "10") has no effect; without one
\* every file is emitted by the line emitter with the line spec, which
\* defaults to the last 10 lines.
C18_OneSpecActive ==
    Configured =>
        /\ config.bytes.given <=> bytes_arg.given
        /\ lines_arg = DefaultLines => config.lines = TakeNum(-10)
        /\ bytes_arg.given =>
               /\ pc # "lines_loop"
               /\ pc \in {"bytes_seek", "bytes_read", "file_end"} =>
                      start_index = get_start_index(config.bytes.value, total_bytes)
               /\ (pc = "file_end" /\ ~modified) =>
                      ContentOf(stdout, file_num) =
                          IF start_index.some
                          THEN from_utf8_lossy(BytesFrom(disk, start_index.idx))
                          ELSE <<>>
        /\ ~bytes_arg.given =>
               /\ pc \notin {"bytes_seek", "bytes_read"}
               /\ pc \in {"lines_loop", "file_end"} =>
                      start_index = get_start_index(config.lines, total_lines)
               /\ (pc = "file_end" /\ ~modified) =>
                      ContentOf(stdout, file_num) =
                          IF start_index.some
                          THEN from_utf8_lossy(Concat(LinesFrom(disk, start_index.idx)))
                          ELSE <<>>

\* C18 witness: a byte-count spec "+2" beside the default line spec: of a
\* three-line file only the bytes from the second on are emitted
C18_Witness ==
    /\ pc = "file_end"
    /\ bytes_arg = BytesArg(<<"+", "2">>)
    /\ lines_arg = DefaultLines
    /\ disk = <<10, 10, 10>>
    /\ ContentOf(stdout, file_num) = <<10, 10>>

\* ---- count_lines_bytes
\* the number of line terminators in a content
NumTerminators(content) ==
    Cardinality({i \in 1..Len(content) : content[i] = Newline})

\* 1 when the content ends with a segment that has no terminator
Unterminated(content) ==
    IF content # <<>> /\ content[Len(content)] # Newline THEN 1 ELSE 0

\* a step of count_lines_bytes (one that is not another process's write)
\* either goes on, returns the totals, or returns an I/O error, which leaves
\* both channels alone
CountStep ==
    (pc \in {"count_open", "count_loop"} /\ budget' = budget) =>
        /\ pc' \in {"count_loop", "resolve", "main_err"}
        /\ pc' = "main_err" <=> err'.kind = "io"
        /\ pc' = "main_err" =>
               /\ err'.prefix = (IF pc = "count_open" THEN "open" ELSE "read")
               /\ stdout' = stdout
               /\ stderr' = stderr
        /\ pc' = "resolve" => count_pos = Len(disk)

\* C19 as stated: count_lines_bytes returns the number of line-terminator
\* bytes of the file and its byte length.
C19_CountsTerminators ==
    (CountDone /\ ~modified) =>
        /\ total_lines = NumTerminators(disk)
        /\ total_bytes = Len(disk)

\* what count_lines_bytes has counted, of a file no other process touches
SegmentsCounted ==
    /\ (pc = "count_loop" /\ ~modified) =>
           /\ num_bytes = count_pos
           /\ num_lines = NumTerminators(Slice(disk, 0, count_pos))
                              + Unterminated(Slice(disk, 0, count_pos))
    /\ (CountDone /\ ~modified) =>
           /\ total_lines = NumTerminators(disk) + Unterminated(disk)
           /\ total_bytes = Len(disk)

\* C19 amended: count_lines_bytes returns (lines, bytes) where lines is the
\* number of segments read_until returned in one complete forward scan, that
\* is the number of line terminators plus one if the file is not empty and
\* does not end with a terminator, and bytes is the byte length of the file;
\* it returns an I/O error if the file cannot be opened or read.
C19_CountsSegments == []SegmentsCounted /\ [][CountStep]_vars

\* C19 witness: two terminators and an unterminated rest count as 3 lines
C19_Witness ==
    /\ pc = "resolve"
    /\ ~modified
    /\ disk = <<10, 10, 97>>
    /\ total_lines = 3
    /\ total_bytes = 3

\* ---- the two channels
\* the bytes print! can write: what from_utf8_lossy makes of file content
PrintableBytes == {b \in ByteAlphabet : b < 128} \cup {239, 191, 189}

\* stdout holds headers and content only
DataOnly(out) ==
    \A i \in 1..Len(out) :
        /\ DOMAIN out[i] = {"file", "kind", "name", "blank", "bytes"}
        /\ out[i].kind \in {"header", "content"}
        /\ \A k \in 1..Len(out[i].bytes) : out[i].bytes[k] \in PrintableBytes

\* stderr holds error reports only: run's about a file it could not open,
\* main's about the error that ended the run
ReportsOnly(out) ==
    \A i \in 1..Len(out) :
        /\ DOMAIN out[i] = {"from", "name", "error"}
        /\ out[i].error.kind \in {"io", "format"}
        /\ out[i].from = "run" =>
               \E n \in 1..Len(files) : out[i].name = files[n]
        /\ out[i].from = "main" => (i = Len(out) /\ pc = "exit" /\ out[i].error = err)

\* C20: error reports are written to the diagnostic channel only and tail
\* content to the primary output channel only; a run that ended with an
\* error reported it on the diagnostic channel.
C20_ChannelsSeparate ==
    /\ DataOnly(stdout)
    /\ ReportsOnly(stderr)
    /\ (pc = "exit" /\ err.kind # "none") =>
           /\ exit_code = 1
           /\ stderr # <<>>
           /\ stderr[Len(stderr)] = Diagnostic("main", <<>>, err)
    /\ pc = "main_err" => err.kind # "none"

\* C20 witness: the first file was printed, then reading the second failed:
\* content on stdout, the report on stderr
C20_Witness ==
    /\ pc = "exit"
    /\ exit_code = 1
    /\ file_num = 1
    /\ ContentOf(stdout, 0) # <<>>
    /\ stderr = <<Diagnostic("main", <<>>, IoError("read"))>>

\* ---- buffers
\* the length of the longest line of a content
LongestLine(content) ==
    LET lens == {Len(LinesOf(content)[i]) : i \in 1..Len(LinesOf(content))}
    IN  IF lens = {} THEN 0 ELSE CHOOSE m \in lens : \A l \in lens : l <= m

\* C21: at every point of a run what the buffers hold is bounded
\* independently of the size of the file, in line mode and in byte mode
\* alike: the counting pass and the line emitter hold at most one line, and
\* the byte emitter holds no amount that grows with the emitted suffix, so
\* that no buffer ever holds more than the longest line of the file.
C21_BuffersBoundedByLine == buf_capacity <= LongestLine(disk)

\* ---- print_lines
\* print_lines is at work on a file no other process touches
LineEmission ==
    /\ ~ByteMode
    /\ ~modified
    /\ start_index.some
    /\ pc \in {"lines_loop", "file_end"}

\* C22 as stated: the lines whose index is >= the start index are written
\* unchanged, the others are read and discarded.
C22_LinesVerbatim ==
    LineEmission =>
        ContentOf(stdout, file_num) =
            Concat(LinesFrom(Slice(disk, 0, pos), start_index.idx))

\* C22 amended: print_lines scans the file forward from its beginning with
\* a 0-based line counter that is the number of lines read so far; a line
\* is written, with its terminator and through lossy UTF-8 decoding (which
\* leaves valid UTF-8 unchanged), if and only if its index is >= the
\* resolved start index; the lines of smaller index are read and
\* discarded; the written lines keep their file order; the loop ends at
\* end of file.
C22_LinesFromStart ==
    LineEmission =>
        /\ line_num = Len(LinesOf(Slice(disk, 0, pos)))
        /\ ContentOf(stdout, file_num) =
               from_utf8_lossy(Concat(LinesFrom(Slice(disk, 0, pos), start_index.idx)))
        /\ \A i \in 1..Len(stdout) :
               (stdout[i].kind = "content" /\ stdout[i].file = file_num) =>
                   \E k \in (start_index.idx + 1)..line_num :
                       stdout[i].bytes = from_utf8_lossy(LinesOf(disk)[k])
        /\ pc = "file_end" => pos = Len(disk)

\* C22 witness: of the two lines read, the one of index 0 is discarded and
\* the one of index 1 is written
C22_Witness ==
    /\ LineEmission
    /\ pc = "file_end"
    /\ disk = <<97, 10, 10>>
    /\ start_index = Some(1)
    /\ line_num = 2
    /\ ContentOf(stdout, file_num) = <<10>>

\* ---- the steps of one file
\* Idle is pc = "run"; the counts are being obtained at "count_open" and
\* "count_loop" and are obtained at "resolve"; the start is resolved and
\* the emitter at work at "lines_loop", "bytes_seek", "bytes_read"; the
\* file is done at "file_end".
Emitting == pc \in {"lines_loop", "bytes_seek", "bytes_read"}

\* nothing of a file is emitted, and its emission source is left alone,
\* until its start index is resolved; a file whose start index is None is
\* done with its emission source untouched, nothing written and no error
NoEmissionBeforeStart ==
    /\ pc \in {"count_open", "count_loop", "resolve"} =>
           /\ ContentOf(stdout, file_num) = <<>>
           /\ pos = 0
           /\ start_index = None
    /\ Emitting => start_index.some
    /\ (pc = "file_end" /\ ~start_index.some) =>
           /\ ContentOf(stdout, file_num) = <<>>
           /\ pos = 0
           /\ buf_capacity = 0
           /\ err = NoError
           /\ exit_code = -1

\* the order of the steps of one file
OrderStep ==
    /\ pc = "run" => pc' \in {"run", "count_open", "exit"}
    /\ pc = "count_open" => pc' \in {"count_open", "count_loop", "main_err"}
    /\ pc = "count_loop" => pc' \in {"count_loop", "resolve", "main_err"}
    /\ pc = "resolve" =>
           \/ pc' = "resolve" /\ budget' # budget
           \/ pc' = "file_end" /\ ~start_index'.some
           \/ pc' \in {"lines_loop", "bytes_seek"} /\ start_index'.some
    /\ pc = "lines_loop" => pc' \in {"lines_loop", "file_end", "main_err"}
    /\ pc = "bytes_seek" => pc' \in {"bytes_seek", "bytes_read", "main_err"}
    /\ pc = "bytes_read" => pc' \in {"bytes_read", "file_end", "main_err"}
    /\ pc = "file_end" =>
           /\ pc' = "run"
           /\ file_num' = file_num + 1
           /\ err' = err
           /\ stdout' = stdout
           /\ stderr' = stderr

\* C23: for each opened file the steps come in the order Idle,
\* counts-obtained, start-resolved, emitting, done; nothing is emitted
\* before the counts are obtained and the start resolved; when the resolver
\* yields None the file goes straight to done, with no read or seek of the
\* emission source, nothing written and no error, and the next file is
\* processed as any other.
C23_PerFileOrder == []NoEmissionBeforeStart /\ [][OrderStep]_vars

\* C23 witness: "-1" on two files: the first, empty, resolved to None and
\* was done with nothing written and no error; the second is then emitted
C23_Witness ==
    /\ pc = "file_end"
    /\ file_num = 1
    /\ lines_arg = <<"1">>
    /\ ~modified
    /\ budget = MaxDiskBytes - Len(disk)
    /\ stderr = <<>>
    /\ ContentOf(stdout, 0) = <<>>
    /\ ContentOf(stdout, 1) # <<>>

\* ---- file handles
\* C24: every handle opened while a file is processed (the one run opened,
\* the one count_lines_bytes opened) is closed before the next file is
\* opened, when the file was emitted and when its start index was None
\* alike: the open handles are never those of two listed files, none is
\* open between two files or when the run is over, and the counting handle
\* is closed when the counts are returned.
C24_HandlesScoped ==
    /\ \A h \in handles : h[2] = file_num
    /\ pc \in {"get_args", "run", "main_err", "exit"} => handles = {}
    /\ pc \in {"count_open"} => handles = {<<"run", file_num>>}
    /\ pc = "count_loop" => handles = {<<"run", file_num>>, <<"count", file_num>>}
    /\ (CountDone /\ pc # "count_loop") => handles = {<<"run", file_num>>}

\* C24 witness: the second file is open, with the two handles of its own
\* only, after a first file whose start index was None
C24_Witness ==
    /\ pc = "count_loop"
    /\ file_num = 1
    /\ lines_arg = <<"0">>
    /\ stderr = <<>>
    /\ handles = {<<"run", 1>>, <<"count", 1>>}

\* ---- termination
\* an iteration of a read loop consumes at least one byte or ends the loop
LoopProgress ==
    /\ (pc = "count_loop" /\ budget' = budget) =>
           \/ pc' = "count_loop" /\ count_pos' > count_pos
           \/ pc' \in {"resolve", "main_err"}
    /\ (pc = "lines_loop" /\ budget' = budget) =>
           \/ pc' = "lines_loop" /\ pos' > pos
           \/ pc' \in {"file_end", "main_err"}
    /\ pc = "file_end" => file_num' = file_num + 1

\* the run is over: after the last file, or at the first propagated error
RunOver ==
    /\ pc = "exit"
    /\ exit_code \in {0, 1}
    /\ exit_code = 0 => file_num = Len(files)
    /\ exit_code = 1 => err.kind # "none"

\* C25: for every finite list of finite files the run terminates: every
\* iteration of the counting scan and of the emission loop consumes at
\* least one byte or ends the loop, at end of file or at the first I/O
\* error, and the run ends after the last file or at the first propagated
\* error.
C25_Terminates == <>RunOver /\ [][LoopProgress]_vars

\* C25 witness: a run over two files is over after the last of them, with
\* every byte the files can hold counted and emitted
C25_Witness ==
    /\ RunOver
    /\ exit_code = 0
    /\ Len(files) = 2
    /\ budget = 0
    /\ Len(ContentOf(stdout, 0)) + Len(ContentOf(stdout, 1)) >= MaxDiskBytes

\* ---- a file that grows between the two passes
\* the emitter has reached the end of a file whose start index is Some
Emitted == pc = "file_end" /\ start_index.some

\* the counting pass counted the lines of the file as it was when the pass
\* ended (no byte was appended behind an unterminated segment it had read)
CountedWhole == total_lines = Len(LinesOf(Slice(disk, 0, total_bytes)))

\* the spec in force counts back from the end of the file
FromEnd ==
    LET spec == IF ByteMode THEN config.bytes.value ELSE config.lines
    IN  spec.tag = "TakeNum" /\ spec.num <= -1

\* the last min(k, size) bytes of a content
LastBytes(content, k) == BytesFrom(content, Len(content) - Min(k, Len(content)))

\* C26: the total of the counting pass serves to resolve the start index
\* and nothing else: both emitters emit from that index to the end of file
\* the emission pass sees, so that, when another process appends to the
\* file between the two passes, everything from the stale start index to
\* the new end is emitted (for a from-end request of k units, possibly more
\* than k); the output is the requested suffix when the file was left
\* unchanged.
C26_StaleStartToNewEnd ==
    Emitted =>
        /\ pos = Len(disk)
        /\ ByteMode =>
               /\ start_index = get_start_index(config.bytes.value, total_bytes)
               /\ total_bytes <= Len(disk)
               /\ ContentOf(stdout, file_num)
                      = from_utf8_lossy(BytesFrom(disk, start_index.idx))
               /\ (FromEnd /\ ~modified) =>
                      ContentOf(stdout, file_num)
                          = from_utf8_lossy(LastBytes(disk, -config.bytes.value.num))
        /\ ~ByteMode =>
               /\ start_index = get_start_index(config.lines, total_lines)
               /\ CountedWhole =>
                      ContentOf(stdout, file_num)
                          = from_utf8_lossy(Concat(LinesFrom(disk, start_index.idx)))
               /\ (FromEnd /\ ~modified) =>
                      ContentOf(stdout, file_num)
                          = from_utf8_lossy(Concat(LastLines(disk, -config.lines.num)))

\* C26 witness: the last byte is asked for of a file that held one byte
\* when it was counted and holds three when it is emitted: all three are
\* written
C26_Witness ==
    /\ Emitted
    /\ ByteMode
    /\ modified
    /\ config.bytes.value = TakeNum(-1)
    /\ total_bytes = 1
    /\ start_index = Some(0)
    /\ disk = <<97, 10, 97>>
    /\ ContentOf(stdout, file_num) = <<97, 10, 97>>

\* ---- the range of the start index
\* the total the start index of the current file was resolved against
TotalUsed == IF ByteMode THEN total_bytes ELSE total_lines

\* C27: whenever get_start_index returns Some(i) for a total >= 0,
\* 0 <= i < total: the start is the index of an existing unit, so that
\* print_bytes never seeks to the end of the file or past it, and an
\* emission that starts writes at least one unit of a file left unchanged.
C27_StartWithinTotal ==
    /\ (Resolved /\ r_index.some) =>
           /\ 0 <= r_index.idx
           /\ r_index.idx < r_total
    /\ ((Emitting \/ pc = "file_end") /\ start_index.some) =>
           /\ 0 <= start_index.idx
           /\ start_index.idx < TotalUsed
    /\ (pc = "bytes_read") => pos < Len(disk)
    /\ (Emitted /\ ~modified) => ContentOf(stdout, file_num) # <<>>

\* C27 witness: "+2" on a file of two bytes: print_bytes has sought to the
\* index 1, that of the last byte
C27_Witness ==
    /\ pc = "bytes_read"
    /\ bytes_arg = BytesArg(<<"+", "2">>)
    /\ ~modified
    /\ total_bytes = 2
    /\ start_index = Some(1)
    /\ pos = 1
    /\ Len(disk) = 2

\* ---- the arithmetic of get_start_index
\* get_start_index with the integers of mathematics
ExactStartIndex(take_val, total) ==
    IF take_val.tag = "PlusZero" THEN
        (IF total > 0 THEN Some(0) ELSE None)
    ELSE
        LET num == take_val.num
        IN  IF num = 0 \/ total = 0 \/ num > total THEN None
            ELSE LET start == IF num < 0 THEN total + num ELSE num - 1
                 IN  Some(IF start < 0 THEN 0 ELSE start)

\* C28: for every TakeNum(n), n anywhere in the i64 range, i64::MIN and
\* i64::MAX included, and every total in 0 .. i64::MAX, neither total + n
\* (n < 0), nor n - 1 (n > 0), nor the conversion of the non-negative start
\* to u64 leaves the range of its type: get_start_index returns what the
\* same arithmetic gives on unbounded integers.
C28_NoOverflow ==
    Resolved =>
        LET num == r_take_val.num
        IN  /\ r_index = ExactStartIndex(r_take_val, r_total)
            /\ (r_take_val.tag = "TakeNum" /\ r_index.some) =>
                   /\ num < 0 => r_total + num \in I64
                   /\ num > 0 => num - 1 \in I64
                   /\ r_index.idx \in 0..I64_MAX

\* C28 witness: the extremes, i64::MIN against a total of i64::MAX
C28_Witness ==
    /\ Resolved
    /\ r_take_val = TakeNum(I64_MIN)
    /\ r_total = I64_MAX
    /\ r_index = Some(0)

\* ---- headers
\* File::open was called on the file at index n
Tried(n) ==
    \/ n < file_num
    \/ /\ n = file_num
       /\ pc \notin {"get_args", "run"}
       /\ pc \in {"main_err", "exit"} => err.kind = "io"

\* and it succeeded: run reported no failure to open it
Opened(n) ==
    /\ Tried(n)
    /\ \A i \in RunReports : stderr[i].name # files[n + 1]

\* where the headers of the file at index n stand in the data output
HeadersOf(n) ==
    {i \in 1..Len(stdout) : stdout[i].kind = "header" /\ stdout[i].file = n}

\* C29: a header is written for a file if and only if the file was opened,
\* more than one file was listed and quiet is off; it is written before the
\* counts of the file are obtained and before any of its content; a blank
\* line precedes it exactly when the index of the file in the argument
\* list is greater than 0, whatever the earlier files produced.
C29_Headers ==
    /\ \A n \in 0..(Len(files) - 1) :
           /\ HeadersOf(n) # {} <=> (Opened(n) /\ Len(files) > 1 /\ ~quiet)
           /\ Cardinality(HeadersOf(n)) <= 1
           /\ \A i \in HeadersOf(n) :
                  /\ stdout[i].name = files[n + 1]
                  /\ stdout[i].blank <=> n > 0
                  /\ \A k \in RecordsOf(stdout, n) : i <= k
    /\ (pc = "count_open" /\ Len(files) > 1 /\ ~quiet) =>
           /\ stdout # <<>>
           /\ stdout[Len(stdout)] = Header(file_num, files[file_num + 1])

\* C29 witness: the first file could not be opened; the header of the
\* second is the first thing on the data output and starts with a blank
\* line
C29_Witness ==
    /\ pc = "count_open"
    /\ file_num = 1
    /\ stderr = <<Diagnostic("run", FileName(1), IoError("open"))>>
    /\ stdout = <<[file |-> 1, kind |-> "header", name |-> FileName(2),
                   blank |-> TRUE, bytes |-> <<>>]>>

\* ---- the exit status
\* the errors get_args and run return
ReturnedErrors ==
    {FormatError(p, m) : p \in {"illegal line count -- ", "illegal byte count -- "},
                         m \in {lines_arg, bytes_arg.tok}}
        \cup {IoError(op) : op \in {"open", "read", "seek"}}

\* C30: the process exits with status 1, having printed the error on the
\* diagnostic channel, if and only if get_args or run returned an error (an
\* invalid count, or a failure of the counting pass, of a read or of the
\* seek); a run whose only failures are files that could not be opened
\* returns Ok and exits with status 0, even if no file could be opened.
C30_ExitStatus ==
    /\ pc # "exit" => exit_code = -1
    /\ pc = "main_err" => err \in ReturnedErrors
    /\ pc = "exit" =>
           /\ exit_code \in {0, 1}
           /\ exit_code = 1 <=> err \in ReturnedErrors
           /\ exit_code = 0 <=> err = NoError
           /\ exit_code = 1 =>
                  /\ stderr # <<>>
                  /\ stderr[Len(stderr)] = Diagnostic("main", <<>>, err)
           /\ exit_code = 0 =>
                  /\ file_num = Len(files)
                  /\ \A i \in 1..Len(stderr) :
                         /\ stderr[i].from = "run"
                         /\ stderr[i].error = IoError("open")

\* C30 witness: neither of the two files listed could be opened: two
\* reports from run, nothing written, status 0
C30_Witness ==
    /\ pc = "exit"
    /\ exit_code = 0
    /\ Len(files) = 2
    /\ stdout = <<>>
    /\ stderr = <<Diagnostic("run", FileName(1), IoError("open")),
                  Diagnostic("run", FileName(2), IoError("open"))>>

====
